---------------------------- MODULE Spec2Model ----------------------------
(***************************************************************************)
(* The incremental text reader of src/text/reader.rs (TextReader): the     *)
(* pull cursor next / step_in / step_out over a line-buffered input, the   *)
(* parse/retry loop parse_next, and the end-of-input disambiguator         *)
(* parse_value_at_eof.                                                     *)
(*                                                                         *)
(* Text is a sequence of one-character strings.  The token parsers and the *)
(* text buffer are collaborators of the reader whose code is not part of   *)
(* reader.rs; they are modelled from the interface the specification gives *)
(* them (a parser maps a text slice to Matched(value, leftover),           *)
(* Incomplete or Error; the buffer pulls one line at a time).  The grammar *)
(* is a small one with the lookahead the reader has to cope with: integers *)
(* and identifiers that may go on, annotations (`a::`), quoted strings,    *)
(* and the three containers, whose elements are separated by white space   *)
(* (a list element is "a bare value or the closing delimiter").            *)
(***************************************************************************)
EXTENDS Integers, Sequences, FiniteSets, TLC

(***************************************************************************)
(* Bounds of the model.                                                    *)
(***************************************************************************)
\* Largest number of top-level values of a generated document.
MaxVals == 2
\* Number of results of top-level next() calls that are recorded; a
\* top-level next() is not issued once that many have been recorded.
MaxOut == 4
\* Largest number of top-level values of a document when the typed readers
\* are called between the calls of the cursor (SpecRead).
MaxReadVals == 1
\* Largest number of top-level values of a document when the calls are run
\* step by step (SpecSteps).
MaxStepVals == 1

(***************************************************************************)
(* State.                                                                  *)
(*   input   the whole text of the data source (fixed at construction)     *)
(*   reader  the TextReader: its fields, the text buffer (the unconsumed   *)
(*           tail `buffer` and the count `loaded` of input characters      *)
(*           pulled so far), and observations of the call in progress      *)
(*           (fields g_...: how often the parser and the disambiguator     *)
(*           ran, the depth at which a pull returned zero bytes, the depth *)
(*           at which the parser reported a syntax error, the outcome of   *)
(*           the disambiguator's parse)                                    *)
(*   doc     the document the input was rendered from, and `defect`, what  *)
(*           was done to the rendering (nothing, truncated, one character  *)
(*           replaced)                                                     *)
(*   last    the last call, its result and the reader before it            *)
(*   out     the results of the next() calls made at depth 0, each with    *)
(*           the outcome of the disambiguator in that call                 *)
(*   stack   the control stack of the call in progress, innermost first,   *)
(*           when a call is run step by step (SpecSteps); empty between    *)
(*           calls, and always empty when calls are taken as a whole       *)
(***************************************************************************)
VARIABLES input, reader, doc, defect, last, out, stack

vars == <<input, reader, doc, defect, last, out, stack>>

(***************************************************************************)
(* Characters.                                                             *)
(***************************************************************************)
Digits == {"0", "7"}
Letters == {"a", "b"}
Whitespace == {" ", "\n"}
Openers == {"[", "(", "{"}
Closers == {"]", ")", "}"}
Quote == "\""
\* Characters that may legally follow a number.
StopChars == Whitespace \cup Openers \cup Closers \cup {Quote}

\* The first index j >= i of text t that is past the end of t or holds a
\* character outside S.
RunEnd(t, i, S) ==
    CHOOSE j \in i..(Len(t) + 1) :
        /\ (j = Len(t) + 1 \/ t[j] \notin S)
        /\ \A k \in i..(j - 1) : t[k] \in S

(***************************************************************************)
(* Values (AnnotatedTextValue).  `at` is the offset, within the text that  *)
(* was parsed, of the first character of the value (of its first           *)
(* annotation, if it has any).                                             *)
(***************************************************************************)
NoValue == [type |-> "none", text |-> <<>>, annotations |-> <<>>, at |-> 0]

MkValue(type, text, annotations, at) ==
    [type |-> type, text |-> text, annotations |-> annotations, at |-> at]

ContainerTypes == {"list", "sexp", "struct"}

\* IonType::is_container
is_container(v) == v.type \in ContainerTypes

ContainerOf(c) ==
    CASE c = "[" -> "list"
      [] c = "(" -> "sexp"
      [] c = "{" -> "struct"

(***************************************************************************)
(* The token parsers.  A result is Matched (kind "ok") with the value and  *)
(* the length of the leftover text, Incomplete, or Error.  A parser of a   *)
(* container position reports the closing delimiter as Matched with        *)
(* NoValue.                                                                *)
(***************************************************************************)
Matched(value, rest) == [kind |-> "ok", value |-> value, rest |-> rest]
Incomplete == [kind |-> "incomplete", value |-> NoValue, rest |-> 0]
Error == [kind |-> "error", value |-> NoValue, rest |-> 0]

\* An optional annotation sequence and the value that follows it, starting
\* at index i of t (`anns` are the annotations read so far, the first of
\* them at `start`): an integer needs a following stop character, an
\* identifier needs to see the text after it (which may be `::`, making it
\* an annotation), a string runs to its closing quote on the same line, and
\* a container is reported by its opening delimiter alone.
RECURSIVE annotated_value(_, _, _, _)
annotated_value(t, i, anns, start) ==
    LET s == RunEnd(t, i, Whitespace)
        at == IF anns = <<>> THEN s ELSE start
    IN
    IF s > Len(t) THEN Incomplete
    ELSE IF t[s] \in Digits THEN
        LET j == RunEnd(t, s, Digits) IN
        IF j > Len(t) THEN Incomplete
        ELSE IF t[j] \in StopChars /\ ~(t[s] = "0" /\ j > s + 1)
             THEN Matched(MkValue("int", SubSeq(t, s, j - 1), anns, at), Len(t) - j + 1)
             ELSE Error
    ELSE IF t[s] \in Letters THEN
        LET j == RunEnd(t, s, Letters \cup Digits)
            k == RunEnd(t, j, Whitespace)
            sym == MkValue("symbol", SubSeq(t, s, j - 1), anns, at)
        IN  IF j > Len(t) \/ k > Len(t) THEN Incomplete
            ELSE IF t[k] # ":" THEN Matched(sym, Len(t) - j + 1)
            ELSE IF k + 1 > Len(t) THEN Incomplete
            ELSE IF t[k + 1] = ":"
                 THEN annotated_value(t, k + 2, Append(anns, SubSeq(t, s, j - 1)), at)
                 ELSE Matched(sym, Len(t) - j + 1)
    ELSE IF t[s] = Quote THEN
        LET q == RunEnd(t, s + 1, Letters \cup Digits \cup {" "}) IN
        IF q > Len(t) THEN Incomplete
        ELSE IF t[q] = Quote
             THEN Matched(MkValue("string", SubSeq(t, s + 1, q - 1), anns, at), Len(t) - q)
             ELSE Error
    ELSE IF t[s] \in Openers
         THEN Matched(MkValue(ContainerOf(t[s]), <<>>, anns, at), Len(t) - s)
    ELSE Error

\* parsers::top_level::top_level_value
top_level_value(t) == annotated_value(t, 1, <<>>, 0)

\* A value of a sequence container, or its closing delimiter `close`.
value_or_end(t, close) ==
    LET s == RunEnd(t, 1, Whitespace) IN
    IF s > Len(t) THEN Incomplete
    ELSE IF t[s] = close THEN Matched(NoValue, Len(t) - s)
    ELSE annotated_value(t, s, <<>>, 0)

\* parsers::containers::list_value_or_end
list_value_or_end(t) == value_or_end(t, "]")

\* parsers::containers::s_expression_value_or_end
s_expression_value_or_end(t) == value_or_end(t, ")")

\* parsers::containers::struct_field_name_or_end: an identifier followed by
\* `:`, or the closing `}`.
struct_field_name_or_end(t) ==
    LET s == RunEnd(t, 1, Whitespace) IN
    IF s > Len(t) THEN Incomplete
    ELSE IF t[s] = "}" THEN Matched(NoValue, Len(t) - s)
    ELSE IF t[s] \in Letters THEN
        LET j == RunEnd(t, s, Letters \cup Digits)
            k == RunEnd(t, j, Whitespace)
        IN  IF j > Len(t) \/ k > Len(t) THEN Incomplete
            ELSE IF t[k] = ":"
                 THEN Matched(MkValue("symbol", SubSeq(t, s, j - 1), <<>>, s), Len(t) - k)
                 ELSE Error
    ELSE Error

\* parsers::containers::struct_field_value: a value is mandatory here.
struct_field_value(t) == annotated_value(t, 1, <<>>, 0)

\* The parser a call site hands to parse_next.
Parser(name, t) ==
    CASE name = "top_level_value" -> top_level_value(t)
      [] name = "list_value_or_end" -> list_value_or_end(t)
      [] name = "s_expression_value_or_end" -> s_expression_value_or_end(t)
      [] name = "struct_field_name_or_end" -> struct_field_name_or_end(t)
      [] name = "struct_field_value" -> struct_field_value(t)


(***************************************************************************)
(* The reader.                                                             *)
(***************************************************************************)
\* The sentinel of parse_value_at_eof.
SENTINEL_ION_TEXT == <<"\n", "0", "\n">>

\* ParentContainer::new; `head` records the input offset of the container
\* value.
ParentContainer(ion_type, head) ==
    [ion_type |-> ion_type, exhausted |-> FALSE, head |-> head]

\* TextReader::new
NewReader ==
    [buffer |-> <<>>, loaded |-> 0,
     current_field_name |-> NoValue, current_value |-> NoValue,
     bytes_read |-> 0, is_eof |-> FALSE, parents |-> <<>>,
     g_parser_calls |-> 0, g_eof_calls |-> 0, g_pull_zero_depth |-> -1,
     g_error_depth |-> -1, g_eof_outcome |-> "not run"]

\* The observations are per call.
BeginCall(r) ==
    [r EXCEPT !.g_parser_calls = 0, !.g_eof_calls = 0, !.g_pull_zero_depth = -1,
              !.g_error_depth = -1, !.g_eof_outcome = "not run"]

\* IonResult of the reader's operations.
Ok(r, value) == [r |-> r, status |-> "ok", value |-> value]
decoding_error(r) == [r |-> r, status |-> "decoding_error", value |-> NoValue]
illegal_operation(r) == [r |-> r, status |-> "illegal_operation", value |-> NoValue]

\* TextReader::depth
depth(r) == Len(r.parents)

\* TextReader::bytes_read
bytes_read(r) == r.bytes_read

\* TextReader::field_name
field_name(r) == r.current_field_name

\* A value with its offset made an offset of the input.
Located(v, base) == IF v = NoValue THEN v ELSE [v EXCEPT !.at = base + v.at]

(***************************************************************************)
(* The text buffer.                                                        *)
(***************************************************************************)
\* TextBuffer::load_next_line: the number of characters of the next line of
\* the input (its line break included), 0 at the end of the input.
NextLineLength(r) ==
    LET e == RunEnd(input, r.loaded + 1, Digits \cup Letters \cup Openers \cup Closers
                                          \cup {" ", ":", Quote})
        stop == IF e > Len(input) THEN Len(input) ELSE e
    IN  stop - r.loaded

load_next_line(r) ==
    LET n == NextLineLength(r) IN
    [r EXCEPT !.buffer = r.buffer \o SubSeq(input, r.loaded + 1, r.loaded + n),
              !.loaded = r.loaded + n]

\* TextBuffer::consume
consume(r, n) == [r EXCEPT !.buffer = SubSeq(r.buffer, n + 1, Len(r.buffer))]

(***************************************************************************)
(* parse_next: the parse/retry loop.  status "some" is Ok(Some(value)),    *)
(* "none" is Ok(None), "err" is a decoding error.  A parser's result is    *)
(* handed to the operator that matches on it.                              *)
(***************************************************************************)
Some(r, value) == [r |-> r, status |-> "some", value |-> value]
None(r) == [r |-> r, status |-> "none", value |-> NoValue]
Err(r) == [r |-> r, status |-> "err", value |-> NoValue]

RECURSIVE parse_loop(_, _)

\* The match inside the loop that consumes a matched value without adding
\* to bytes_read.
parse_attempt_uncounted(r, name, p) ==
    IF p.kind = "incomplete" THEN
        IF NextLineLength(r) = 0
        THEN None([r EXCEPT !.is_eof = TRUE, !.g_pull_zero_depth = depth(r)])
        ELSE parse_loop(load_next_line(r), name)
    ELSE IF p.kind = "ok" THEN
        Some(consume(r, Len(r.buffer) - p.rest), Located(p.value, r.bytes_read))
    ELSE Err([r EXCEPT !.g_error_depth = depth(r)])

\* The match inside the loop that drops the text it could not parse.
parse_attempt_dropping(r, name, p) ==
    IF p.kind = "incomplete" THEN
        IF NextLineLength(r) = 0
        THEN None([r EXCEPT !.is_eof = TRUE, !.g_pull_zero_depth = depth(r)])
        ELSE parse_loop(load_next_line(r), name)
    ELSE IF p.kind = "ok" THEN
        LET bytes_consumed == Len(r.buffer) - p.rest
        IN  Some([consume(r, bytes_consumed)
                     EXCEPT !.bytes_read = r.bytes_read + bytes_consumed],
                 Located(p.value, r.bytes_read))
    ELSE Err([consume(r, Len(r.buffer))
                 EXCEPT !.bytes_read = r.bytes_read + Len(r.buffer),
                        !.g_error_depth = depth(r)])

\* The match on the parser's result p inside the loop.
parse_attempt(r, name, p) ==
    IF p.kind = "incomplete" THEN
        IF NextLineLength(r) = 0
        THEN None([r EXCEPT !.is_eof = TRUE, !.g_pull_zero_depth = depth(r)])
        ELSE parse_loop(load_next_line(r), name)
    ELSE IF p.kind = "ok" THEN
        LET length_before_parse == Len(r.buffer)
            length_after_parse == p.rest
            bytes_consumed == length_before_parse - length_after_parse
        IN  Some([consume(r, bytes_consumed)
                     EXCEPT !.bytes_read = r.bytes_read + bytes_consumed],
                 Located(p.value, r.bytes_read))
    ELSE Err([r EXCEPT !.g_error_depth = depth(r)])

parse_loop(r, name) ==
    parse_attempt([r EXCEPT !.g_parser_calls = r.g_parser_calls + 1], name,
                  Parser(name, r.buffer))

parse_next(r, name) ==
    IF r.is_eof THEN None(r) ELSE parse_loop(r, name)

\* parse_expected that reports end of input as the end of the container.
expected_eof_as_end(p) ==
    IF p.status = "some" THEN Ok(p.r, p.value)
    ELSE IF p.status = "none" THEN Ok(p.r, NoValue)
    ELSE decoding_error(p.r)

\* parse_expected: end of input is a decoding error.
expected(p) ==
    IF p.status = "some" THEN Ok(p.r, p.value) ELSE decoding_error(p.r)

parse_expected(r, name) == expected(parse_next(r, name))

(***************************************************************************)
(* parse_value_at_eof: the end-of-input disambiguator.                     *)
(***************************************************************************)
ends_with(t, suffix) ==
    /\ Len(t) >= Len(suffix)
    /\ SubSeq(t, Len(t) - Len(suffix) + 1, Len(t)) = suffix

IsUnannotatedZero(v) ==
    /\ Len(v.annotations) = 0
    /\ v.type = "int"
    /\ v.text = <<"0">>

\* The sentinel left in the buffer.
strip_sentinel_never(r) == r

\* The buffer once the sentinel, if still at its end, has been removed.
strip_sentinel(r) ==
    IF ends_with(r.buffer, SENTINEL_ION_TEXT)
    THEN [r EXCEPT !.buffer = SubSeq(r.buffer, 1,
                                     Len(r.buffer) - Len(SENTINEL_ION_TEXT))]
    ELSE r

\* The match that takes any unannotated zero for the sentinel, whatever text
\* is left after it.
eof_outcome_any_zero(p) ==
    IF p.kind = "ok" /\ IsUnannotatedZero(p.value) THEN "sentinel"
    ELSE IF p.kind = "ok" THEN "value"
    ELSE p.kind

\* The match on the result p of parsing the buffer with the sentinel.
eof_outcome(p) ==
    IF p.kind = "ok" /\ p.rest = 1 /\ IsUnannotatedZero(p.value) THEN "sentinel"
    ELSE IF p.kind = "ok" THEN "value"
    ELSE p.kind

\* The disambiguator reporting "no more values" whatever the parse found.
at_eof_always_none(r, p) ==
    IF eof_outcome(p) \in {"sentinel", "value"} THEN None(r) ELSE Err(r)

at_eof(r, p) ==
    IF eof_outcome(p) = "sentinel" THEN None(r)
    ELSE IF eof_outcome(p) = "value" THEN Some(r, Located(p.value, r.bytes_read))
    ELSE Err(r)

eof_parsed(r, p) ==
    at_eof(strip_sentinel([r EXCEPT !.g_eof_calls = r.g_eof_calls + 1,
                                    !.g_eof_outcome = eof_outcome(p)]),
           p)

parse_value_at_eof(r) ==
    eof_parsed([r EXCEPT !.buffer = r.buffer \o SENTINEL_ION_TEXT],
               top_level_value(r.buffer \o SENTINEL_ION_TEXT))

\* next_top_level_value
top_level_or_eof(p) ==
    IF p.status = "none" THEN parse_value_at_eof(p.r) ELSE p

next_top_level_value(r) == top_level_or_eof(parse_next(r, "top_level_value"))

\* next_list_value
next_list_value(r) == parse_expected(r, "list_value_or_end")

\* next_s_expression_value
next_s_expression_value(r) == parse_expected(r, "s_expression_value_or_end")

\* next_struct_field_name
next_struct_field_name(r) == parse_expected(r, "struct_field_name_or_end")

\* next_struct_field_value
next_struct_field_value(r) == parse_expected(r, "struct_field_value")

(***************************************************************************)
(* The cursor operations.  load_next_value, next and step_out call each    *)
(* other: next() skips an unconsumed container by step_in + step_out, and  *)
(* step_out() visits the rest of its container with next().                *)
(***************************************************************************)
RECURSIVE load_next_value(_), next(_), step_out(_), visit_remaining(_)

\* step_in that drops the current value before it finds the call illegal.
step_in_clearing_value(r) ==
    IF r.current_value # NoValue /\ is_container(r.current_value)
    THEN Ok([r EXCEPT !.parents = Append(r.parents,
                          ParentContainer(r.current_value.type, r.current_value.at)),
                      !.current_value = NoValue],
            NoValue)
    ELSE illegal_operation([r EXCEPT !.current_value = NoValue])

\* step_in that pushes a list frame whatever the container is.
step_in_list_frame(r) ==
    IF r.current_value # NoValue /\ is_container(r.current_value)
    THEN Ok([r EXCEPT !.parents = Append(r.parents,
                          ParentContainer("list", r.current_value.at)),
                      !.current_value = NoValue],
            NoValue)
    ELSE illegal_operation(r)

\* SystemReader::step_in
step_in(r) ==
    IF r.current_value # NoValue /\ is_container(r.current_value)
    THEN Ok([r EXCEPT !.parents = Append(r.parents,
                          ParentContainer(r.current_value.type, r.current_value.at)),
                      !.current_value = NoValue],
            NoValue)
    ELSE illegal_operation(r)

\* load_next_value at the top level: the match on the value read.
top_level_loaded(value) ==
    IF value.status = "none"
    THEN Ok([value.r EXCEPT !.is_eof = TRUE, !.current_value = NoValue], NoValue)
    ELSE IF value.status = "some"
    THEN Ok([value.r EXCEPT !.current_value = value.value], NoValue)
    ELSE Ok(value.r, NoValue)

\* load_top_level without the early return on the EOF flag.
load_top_level_no_eof_check(r) == top_level_loaded(next_top_level_value(r))

\* load_next_value at the top level (the `parents` stack is empty).
load_top_level(r) ==
    IF r.is_eof THEN Ok([r EXCEPT !.current_value = NoValue], NoValue)
    ELSE top_level_loaded(next_top_level_value(r))

\* Inside a struct, with a field value that may be missing: the end of the
\* input after a field name is taken for the end of the struct.
struct_value_after_optional(name) ==
    IF name.status # "ok" THEN name
    ELSE IF name.value # NoValue
    THEN expected_eof_as_end(
             parse_next([name.r EXCEPT !.current_field_name = name.value],
                        "struct_field_value"))
    ELSE Ok(name.r, NoValue)

\* Inside a struct: the field value that follows the field name `name`.
struct_value_after(name) ==
    IF name.status # "ok" THEN name
    ELSE IF name.value # NoValue
    THEN next_struct_field_value([name.r EXCEPT !.current_field_name = name.value])
    ELSE Ok(name.r, NoValue)

next_struct_value(r) == struct_value_after(next_struct_field_name(r))

\* The end of a container recorded on the outermost frame instead of the
\* innermost one.
container_loaded_marks_outermost(value) ==
    IF value.status # "ok" THEN value
    ELSE IF value.value = NoValue
    THEN Ok([value.r EXCEPT !.parents[1].exhausted = TRUE,
                            !.current_value = NoValue],
            NoValue)
    ELSE Ok([value.r EXCEPT !.current_value = value.value], NoValue)

\* The end of a container recorded on the frame while the value loaded
\* before it stays current.
container_loaded_keeps_value(value) ==
    IF value.status # "ok" THEN value
    ELSE IF value.value = NoValue
    THEN Ok([value.r EXCEPT !.parents[Len(value.r.parents)].exhausted = TRUE],
            NoValue)
    ELSE Ok([value.r EXCEPT !.current_value = value.value], NoValue)

\* load_next_value inside a container: the match on the value read.
container_loaded(value) ==
    IF value.status # "ok" THEN value
    ELSE IF value.value = NoValue
    THEN Ok([value.r EXCEPT !.parents[Len(value.r.parents)].exhausted = TRUE,
                            !.current_value = NoValue],
            NoValue)
    ELSE Ok([value.r EXCEPT !.current_value = value.value], NoValue)

\* load_next_value inside a container that does not look at the frame's
\* exhausted flag.
load_in_container_no_exhausted_check(r) ==
    container_loaded(
        CASE r.parents[Len(r.parents)].ion_type = "list" -> next_list_value(r)
          [] r.parents[Len(r.parents)].ion_type = "sexp" -> next_s_expression_value(r)
          [] r.parents[Len(r.parents)].ion_type = "struct" -> next_struct_value(r))

\* load_next_value inside a container.
load_in_container(r) ==
    IF r.parents[Len(r.parents)].exhausted
    THEN Ok([r EXCEPT !.current_value = NoValue], NoValue)
    ELSE container_loaded(
             CASE r.parents[Len(r.parents)].ion_type = "list" -> next_list_value(r)
               [] r.parents[Len(r.parents)].ion_type = "sexp" -> next_s_expression_value(r)
               [] r.parents[Len(r.parents)].ion_type = "struct" -> next_struct_value(r))

\* load_next_value once an unconsumed container has been skipped.
load_after_skip(skipped) ==
    IF skipped.status # "ok" THEN skipped
    ELSE IF skipped.r.parents = <<>> THEN load_top_level(skipped.r)
    ELSE load_in_container(skipped.r)

\* `self.step_in()?; self.step_out()?;`
left_after(entered) ==
    IF entered.status = "ok" THEN step_out(entered.r) ELSE entered

\* load_next_value that does not skip an unconsumed container.
load_next_value_no_skip(r) == load_after_skip(Ok(r, NoValue))

load_next_value(r) ==
    LET need_to_skip_container ==
            r.current_value # NoValue /\ is_container(r.current_value)
    IN  IF need_to_skip_container
        THEN load_after_skip(left_after(step_in(r)))
        ELSE load_after_skip(Ok(r, NoValue))

\* SystemReader::next: the value is NoValue for Ok(None).
next_loaded(l) ==
    IF l.status # "ok" THEN l ELSE Ok(l.r, l.r.current_value)

next(r) == next_loaded(load_next_value(r))

\* `while let Some(_) = self.next()? {}`
visit_again(n) ==
    IF n.status = "ok" /\ n.value # NoValue THEN visit_remaining(n.r) ELSE n

visit_remaining(r) == visit_again(next(r))

\* step_out that clears the current value and leaves the frame on the stack.
pop_parent_keeps_frame(visited) ==
    IF visited.status # "ok" THEN visited
    ELSE Ok([visited.r EXCEPT !.current_value = NoValue], NoValue)

\* step_out: the pop once the container has been visited to its end.
pop_parent(visited) ==
    IF visited.status # "ok" THEN visited
    ELSE Ok([visited.r EXCEPT
                 !.parents = SubSeq(visited.r.parents, 1, Len(visited.r.parents) - 1),
                 !.current_value = NoValue],
            NoValue)

\* step_out that pops the frame without visiting the rest of the container.
step_out_no_visit(r) ==
    IF r.parents = <<>> THEN illegal_operation(r) ELSE pop_parent(Ok(r, NoValue))

\* SystemReader::step_out
step_out(r) ==
    IF r.parents = <<>> THEN illegal_operation(r)
    ELSE IF ~r.parents[Len(r.parents)].exhausted
    THEN pop_parent(visit_remaining(r))
    ELSE pop_parent(Ok(r, NoValue))

(***************************************************************************)
(* The typed scalar readers.  Each matches the current value against one   *)
(* variant of TextValue and returns its payload (the value without its     *)
(* annotations; `at` 0) or None (NoValue).  The grammar of this model has  *)
(* values of the variants Integer ("int"), String ("string") and Symbol    *)
(* only.                                                                   *)
(***************************************************************************)
\* A reader that takes the current value out of the reader.
read_variant_taking(r, variant) ==
    IF r.current_value # NoValue /\ r.current_value.type = variant
    THEN Ok([r EXCEPT !.current_value = NoValue],
            MkValue(r.current_value.type, r.current_value.text, <<>>, 0))
    ELSE Ok(r, NoValue)

\* `match self.current_value.as_ref().map(|current| current.value())`
read_variant(r, variant) ==
    IF r.current_value # NoValue /\ r.current_value.type = variant
    THEN Ok(r, MkValue(r.current_value.type, r.current_value.text, <<>>, 0))
    ELSE Ok(r, NoValue)

read_null(r) == read_variant(r, "null")
read_bool(r) == read_variant(r, "bool")
read_i64(r) == read_variant(r, "int")
read_f64(r) == read_variant(r, "float")
read_decimal(r) == read_variant(r, "decimal")
read_string(r) == read_variant(r, "string")
read_blob_bytes(r) == read_variant(r, "blob")
read_clob_bytes(r) == read_variant(r, "clob")
read_timestamp(r) == read_variant(r, "timestamp")

ReadOps == {"read_null", "read_bool", "read_i64", "read_f64", "read_decimal",
            "read_string", "read_blob_bytes", "read_clob_bytes", "read_timestamp"}

Read(op, r) ==
    CASE op = "read_null" -> read_null(r)
      [] op = "read_bool" -> read_bool(r)
      [] op = "read_i64" -> read_i64(r)
      [] op = "read_f64" -> read_f64(r)
      [] op = "read_decimal" -> read_decimal(r)
      [] op = "read_string" -> read_string(r)
      [] op = "read_blob_bytes" -> read_blob_bytes(r)
      [] op = "read_clob_bytes" -> read_clob_bytes(r)
      [] op = "read_timestamp" -> read_timestamp(r)

(***************************************************************************)
(* Inputs: a document of up to MaxVals top-level values drawn from Items,  *)
(* rendered as text with a separator `sep` between values and an optional  *)
(* trailing line break, and then left as it is, truncated, or given one    *)
(* illegal character.                                                      *)
(***************************************************************************)
Item(type, text, annotations, field, children) ==
    [type |-> type, text |-> text, annotations |-> annotations,
     field |-> field, children |-> children]

Scalar(type, text) == Item(type, text, <<>>, <<>>, <<>>)
Field(name, item) == [item EXCEPT !.field = name]

Items ==
    { Scalar("int", <<"7", "7">>),
      Scalar("int", <<"0">>),
      Item("symbol", <<"a">>, << <<"b">> >>, <<>>, <<>>),
      Scalar("string", <<"a">>),
      Item("list", <<>>, <<>>, <<>>,
           << Scalar("int", <<"7">>),
              Item("list", <<>>, <<>>, <<>>, << Scalar("symbol", <<"a">>) >>),
              Scalar("int", <<"7">>) >>),
      Item("sexp", <<>>, <<>>, <<>>, << Scalar("symbol", <<"a">>) >>),
      Item("struct", <<>>, <<>>, <<>>,
           << Field(<<"a">>, Scalar("int", <<"7">>)),
              Field(<<"b">>, Item("list", <<>>, <<>>, <<>>, << Scalar("int", <<"7">>) >>)) >>),
      Item("list", <<>>, <<>>, <<>>, <<>>) }

Docs == UNION { [1..n -> Items] : n \in 0..MaxVals }

Open(type) == CASE type = "list" -> "[" [] type = "sexp" -> "(" [] type = "struct" -> "{"
Close(type) == CASE type = "list" -> "]" [] type = "sexp" -> ")" [] type = "struct" -> "}"

RECURSIVE Render(_, _), RenderAll(_, _), RenderAnnotations(_)
RenderAnnotations(anns) ==
    IF anns = <<>> THEN <<>>
    ELSE Head(anns) \o <<":", ":">> \o RenderAnnotations(Tail(anns))

Render(item, sep) ==
    (IF item.field = <<>> THEN <<>> ELSE item.field \o <<":">>)
    \o RenderAnnotations(item.annotations)
    \o (CASE item.type \in {"int", "symbol"} -> item.text
          [] item.type = "string" -> <<Quote>> \o item.text \o <<Quote>>
          [] OTHER -> <<Open(item.type)>> \o RenderAll(item.children, sep)
                      \o <<Close(item.type)>>)

RenderAll(items, sep) ==
    IF items = <<>> THEN <<>>
    ELSE IF Len(items) = 1 THEN Render(items[1], sep)
    ELSE Render(items[1], sep) \o <<sep>> \o RenderAll(Tail(items), sep)

\* The value the reader is to report for an item (its offset left out).
ValueOf(item) == MkValue(item.type, item.text, item.annotations, 0)

Defects(text) ==
    {[kind |-> "none", at |-> 0]}
    \cup {[kind |-> "truncated", at |-> k] : k \in 0..(Len(text) - 1)}
    \cup {[kind |-> "corrupted", at |-> k] : k \in 1..Len(text)}

Damaged(text, d) ==
    CASE d.kind = "none" -> text
      [] d.kind = "truncated" -> SubSeq(text, 1, d.at)
      [] d.kind = "corrupted" -> [text EXCEPT ![d.at] = ":"]

NoCall == [op |-> "new", status |-> "ok", value |-> NoValue, pre |-> NewReader,
           left |-> 0]

Init ==
    /\ doc \in Docs
    /\ \E sep \in Whitespace, trail \in {<<>>, <<"\n">>} :
         LET text == RenderAll(doc, sep) \o trail IN
         /\ defect \in Defects(text)
         /\ input = Damaged(text, defect)
    /\ reader = NewReader
    /\ last = NoCall
    /\ out = <<>>
    /\ stack = <<>>

\* The head offset of the container the last call stepped out of, 0 if the
\* last call was not a successful step_out.
JustLeft ==
    IF last.op = "step_out" /\ last.status = "ok"
    THEN last.pre.parents[Len(last.pre.parents)].head
    ELSE 0

Call(op, res, pre) ==
    /\ reader' = res.r
    /\ last' = [op |-> op, status |-> res.status, value |-> res.value, pre |-> pre,
                left |-> JustLeft]
    /\ out' = IF op = "next" /\ depth(pre) = 0
              THEN Append(out, [status |-> res.status, value |-> res.value,
                                eof |-> res.r.g_eof_outcome])
              ELSE out
    /\ UNCHANGED <<input, doc, defect, stack>>

CallNext ==
    /\ depth(reader) = 0 => Len(out) < MaxOut
    /\ Call("next", next(BeginCall(reader)), BeginCall(reader))

CallStepIn == Call("step_in", step_in(BeginCall(reader)), BeginCall(reader))

CallStepOut == Call("step_out", step_out(BeginCall(reader)), BeginCall(reader))

Next == CallNext \/ CallStepIn \/ CallStepOut

Spec == Init /\ [][Next]_vars

(***************************************************************************)
(* The cursor with the typed readers: a reader may be called between any   *)
(* two calls of the cursor.                                                *)
(***************************************************************************)
CallRead == \E op \in ReadOps : Call(op, Read(op, reader), reader)

NextRead == Next \/ CallRead

InitRead == Init /\ Len(doc) <= MaxReadVals

SpecRead == InitRead /\ [][NextRead]_vars

(***************************************************************************)
(* The calls run step by step.  A step is one pass of a loop or one move   *)
(* between the functions of a call: `stack` holds what is still to run,    *)
(* the innermost first, as frames [pc, name] (name: the parser of a        *)
(* parse_next); the result of the function that returned last is in        *)
(* last.status and last.value.  A frame whose pc is the name of one of the *)
(* operators above that match on a result applies that operator.           *)
(***************************************************************************)
Frame(pc, name) == [pc |-> pc, name |-> name]

Result == [r |-> reader, status |-> last.status, value |-> last.value]

\* The step's outcome: the reader, the result and the frames left to run.
Continue(res, frames) ==
    /\ reader' = res.r
    /\ last' = [last EXCEPT !.status = res.status, !.value = res.value]
    /\ stack' = frames
    /\ UNCHANGED <<input, doc, defect, out>>

At(pc) == stack # <<>> /\ Head(stack).pc = pc

\* A caller starts next() or step_out().
Start(op) ==
    /\ stack = <<>>
    /\ reader' = BeginCall(reader)
    /\ last' = [op |-> op, status |-> "ok", value |-> NoValue,
                pre |-> BeginCall(reader), left |-> 0]
    /\ stack' = <<Frame(op, "")>>
    /\ UNCHANGED <<input, doc, defect, out>>

StartNext == Start("next")

StartStepOut == Start("step_out")

\* step_in() has no loop and calls nothing: it is one step.
StepIn ==
    /\ stack = <<>>
    /\ reader' = step_in(BeginCall(reader)).r
    /\ last' = [op |-> "step_in", status |-> step_in(BeginCall(reader)).status,
                value |-> NoValue, pre |-> BeginCall(reader), left |-> 0]
    /\ UNCHANGED <<input, doc, defect, out, stack>>

\* next(), and the head of load_next_value: `self.step_in()?;
\* self.step_out()?;` if the current value is a container.
StepNext ==
    /\ At("next")
    /\ IF reader.current_value # NoValue /\ is_container(reader.current_value)
       THEN Continue(step_in(reader),
                     (IF step_in(reader).status = "ok"
                      THEN <<Frame("step_out", "")>> ELSE <<>>)
                     \o <<Frame("load", ""), Frame("next_loaded", "")>>
                     \o Tail(stack))
       ELSE Continue(Ok(reader, NoValue),
                     <<Frame("load", ""), Frame("next_loaded", "")>> \o Tail(stack))

\* What load_next_value runs to read a value inside a container.
ContainerFrames(ion_type) ==
    CASE ion_type = "list" ->
             <<Frame("parse_next", "list_value_or_end"), Frame("expected", ""),
               Frame("container_loaded", "")>>
      [] ion_type = "sexp" ->
             <<Frame("parse_next", "s_expression_value_or_end"), Frame("expected", ""),
               Frame("container_loaded", "")>>
      [] ion_type = "struct" ->
             <<Frame("parse_next", "struct_field_name_or_end"), Frame("expected", ""),
               Frame("struct_value_after", ""), Frame("container_loaded", "")>>

\* load_next_value after the skip.
StepLoad ==
    /\ At("load")
    /\ IF last.status # "ok" THEN Continue(Result, Tail(stack))
       ELSE IF reader.parents = <<>> THEN
            IF reader.is_eof
            THEN Continue(Ok([reader EXCEPT !.current_value = NoValue], NoValue),
                          Tail(stack))
            ELSE Continue(Result,
                          <<Frame("parse_next", "top_level_value"),
                            Frame("top_level_or_eof", ""),
                            Frame("top_level_loaded", "")>> \o Tail(stack))
       ELSE IF reader.parents[Len(reader.parents)].exhausted
            THEN Continue(Ok([reader EXCEPT !.current_value = NoValue], NoValue),
                          Tail(stack))
            ELSE Continue(Result,
                          ContainerFrames(reader.parents[Len(reader.parents)].ion_type)
                          \o Tail(stack))

\* parse_next before its loop.
StepParseNext ==
    /\ At("parse_next")
    /\ IF reader.is_eof
       THEN Continue(None(reader), Tail(stack))
       ELSE Continue(Result, <<Frame("parse_loop", Head(stack).name)>> \o Tail(stack))

Retry(r) == [r |-> r, status |-> "retry", value |-> NoValue]

\* One pass of the loop that goes round again when nothing more was pulled.
attempt_retrying_at_eof(r, p) ==
    IF p.kind = "incomplete" THEN Retry(load_next_line(r))
    ELSE IF p.kind = "ok" THEN
        LET bytes_consumed == Len(r.buffer) - p.rest
        IN  Some([consume(r, bytes_consumed)
                     EXCEPT !.bytes_read = r.bytes_read + bytes_consumed],
                 Located(p.value, r.bytes_read))
    ELSE Err([r EXCEPT !.g_error_depth = depth(r)])

\* One pass of the loop of parse_next: the match on the parser's result p.
attempt(r, p) ==
    IF p.kind = "incomplete" THEN
        IF NextLineLength(r) = 0
        THEN None([r EXCEPT !.is_eof = TRUE, !.g_pull_zero_depth = depth(r)])
        ELSE Retry(load_next_line(r))
    ELSE IF p.kind = "ok" THEN
        LET length_before_parse == Len(r.buffer)
            length_after_parse == p.rest
            bytes_consumed == length_before_parse - length_after_parse
        IN  Some([consume(r, bytes_consumed)
                     EXCEPT !.bytes_read = r.bytes_read + bytes_consumed],
                 Located(p.value, r.bytes_read))
    ELSE Err([r EXCEPT !.g_error_depth = depth(r)])

Attempted(a) ==
    Continue(a, IF a.status = "retry" THEN stack ELSE Tail(stack))

StepParseLoop ==
    /\ At("parse_loop")
    /\ Attempted(attempt([reader EXCEPT !.g_parser_calls = reader.g_parser_calls + 1],
                         Parser(Head(stack).name, reader.buffer)))

\* Inside a struct, once next_struct_field_name has returned.
StepStructValue ==
    /\ At("struct_value_after")
    /\ IF last.status # "ok" THEN Continue(Result, Tail(stack))
       ELSE IF last.value # NoValue
       THEN Continue(Ok([reader EXCEPT !.current_field_name = last.value], NoValue),
                     <<Frame("parse_next", "struct_field_value"), Frame("expected", "")>>
                     \o Tail(stack))
       ELSE Continue(Ok(reader, NoValue), Tail(stack))

\* step_out before its loop.
StepStepOut ==
    /\ At("step_out")
    /\ IF reader.parents = <<>> THEN Continue(illegal_operation(reader), Tail(stack))
       ELSE IF ~reader.parents[Len(reader.parents)].exhausted
       THEN Continue(Result,
                     <<Frame("next", ""), Frame("visit_again", ""),
                       Frame("pop_parent", "")>> \o Tail(stack))
       ELSE Continue(Ok(reader, NoValue), <<Frame("pop_parent", "")>> \o Tail(stack))

\* The loop of step_out that is never entered.
scan_on_never(n) == FALSE

\* `while let Some(_) = self.next()?`: the loop of step_out goes round again.
scan_on(n) == n.status = "ok" /\ n.value # NoValue

StepVisitAgain ==
    /\ At("visit_again")
    /\ IF scan_on(Result)
       THEN Continue(Result, <<Frame("next", "")>> \o stack)
       ELSE Continue(Result, Tail(stack))

\* The functions that match on the result of the function they called.
Matches ==
    {"top_level_or_eof", "top_level_loaded", "expected", "container_loaded",
     "next_loaded", "pop_parent"}

Match(pc, res) ==
    CASE pc = "top_level_or_eof" -> top_level_or_eof(res)
      [] pc = "top_level_loaded" -> top_level_loaded(res)
      [] pc = "expected" -> expected(res)
      [] pc = "container_loaded" -> container_loaded(res)
      [] pc = "next_loaded" -> next_loaded(res)
      [] pc = "pop_parent" -> pop_parent(res)

StepMatch ==
    /\ stack # <<>>
    /\ Head(stack).pc \in Matches
    /\ Continue(Match(Head(stack).pc, Result), Tail(stack))

\* The steps of the call in progress.
Step ==
    \/ StepNext
    \/ StepLoad
    \/ StepParseNext
    \/ StepParseLoop
    \/ StepStructValue
    \/ StepStepOut
    \/ StepVisitAgain
    \/ StepMatch

NextSteps == StartNext \/ StartStepOut \/ StepIn \/ Step

\* A call that has started goes on running: it is the caller's thread that
\* runs it.
InitSteps == Init /\ Len(doc) <= MaxStepVals

SpecSteps == InitSteps /\ [][NextSteps]_vars /\ WF_vars(Step)

(***************************************************************************)
(* What the input says, read off the whole text without the reader: the    *)
(* input is well formed when the rendering was left as it is; the closing  *)
(* delimiter of the container that starts at offset h is found by counting *)
(* delimiters, and the value that follows offset c starts at the next      *)
(* character that is not white space (0: a closing delimiter or the end of *)
(* the input comes first, so no value follows).                            *)
(***************************************************************************)
WellFormed == defect.kind = "none"

Count(S, from, to) == Cardinality({k \in from..to : input[k] \in S})

ClosingDelimiter(h) ==
    CHOOSE j \in h..Len(input) :
        /\ Count(Openers, h, j) > 0
        /\ Count(Openers, h, j) = Count(Closers, h, j)
        /\ \A i \in h..(j - 1) :
               Count(Openers, h, i) = 0 \/ Count(Openers, h, i) > Count(Closers, h, i)

ValueAfter(c) ==
    LET s == RunEnd(input, c + 1, Whitespace) IN
    IF s > Len(input) \/ input[s] \in Closers THEN 0 ELSE s

SameValue(v, item) ==
    /\ v.type = item.type
    /\ v.text = item.text
    /\ v.annotations = item.annotations

(***************************************************************************)
(* C1: for a well-formed input of N top-level values, the next() calls     *)
(* made at depth 0 return the N values in source order, the (N+1)-th       *)
(* returns "no more values", and so does every later one.                  *)
(***************************************************************************)
C1_TopLevelValuesInOrder ==
    WellFormed =>
        \A i \in 1..Len(out) :
            /\ out[i].status = "ok"
            /\ IF i <= Len(doc)
               THEN SameValue(out[i].value, doc[i])
               ELSE out[i].value = NoValue

\* Two values were read, in order, and two further calls found the end.
C1_Witness ==
    /\ WellFormed
    /\ Len(doc) = 2
    /\ Len(out) = 4
    /\ SameValue(out[1].value, doc[1])
    /\ SameValue(out[2].value, doc[2])
    /\ out[3].value = NoValue
    /\ out[4].value = NoValue

(***************************************************************************)
(* C2: a successful step_out() leaves the reader just past the closing     *)
(* delimiter of the container it left, whatever number of children had     *)
(* been read, and the next() that follows returns the value that starts    *)
(* after that delimiter ("no more values" if none does): no remaining      *)
(* child of the container is returned.                                     *)
(***************************************************************************)
C2_StepOutDiscardsRest ==
    WellFormed =>
        /\ JustLeft > 0 => reader.bytes_read = ClosingDelimiter(JustLeft)
        /\ (last.op = "next" /\ last.left > 0) =>
               /\ last.status = "ok"
               /\ last.value.at = ValueAfter(ClosingDelimiter(last.left))

\* A container was left with children unread, and the next() after it
\* returned the value that follows the container.
C2_Witness ==
    /\ WellFormed
    /\ last.op = "next"
    /\ last.left > 0
    /\ last.value # NoValue
    /\ last.pre.bytes_read = ClosingDelimiter(last.left)
    /\ last.value.at > ClosingDelimiter(last.left)
    /\ \E k \in (last.left + 1)..(ClosingDelimiter(last.left) - 1) :
           input[k] \in Digits \cup Letters

(***************************************************************************)
(* C3: next() on an unconsumed container head skips the whole container,   *)
(* nested containers included: it returns the value that starts after the  *)
(* container's closing delimiter ("no more values" if none does), at the   *)
(* depth the call was made at.                                             *)
(***************************************************************************)
C3_NextSkipsContainer ==
    (WellFormed /\ last.op = "next" /\ is_container(last.pre.current_value)) =>
        /\ last.status = "ok"
        /\ last.value.at = ValueAfter(ClosingDelimiter(last.pre.current_value.at))
        /\ depth(reader) = depth(last.pre)

\* A container that holds a nested container was skipped by next().
C3_Witness ==
    /\ WellFormed
    /\ last.op = "next"
    /\ is_container(last.pre.current_value)
    /\ last.status = "ok"
    /\ last.value # NoValue
    /\ Count(Openers, last.pre.current_value.at,
             ClosingDelimiter(last.pre.current_value.at)) > 1

(***************************************************************************)
(* C4: a next() call during which the parser reports a syntax error, at    *)
(* any depth, returns a decoding error.                                    *)
(***************************************************************************)
C4_SyntaxErrorIsReturned ==
    (last.op = "next" /\ reader.g_error_depth >= 0) => last.status = "decoding_error"

(***************************************************************************)
(* C5: when the input ends at top level and the parse of the tail with the *)
(* sentinel is incomplete or a syntax error, the next() call returns a     *)
(* decoding error (and so does not return the value read before).          *)
(***************************************************************************)
C5_TruncatedAtEofIsError ==
    (last.op = "next" /\ reader.g_eof_outcome \in {"incomplete", "error"}) =>
        last.status = "decoding_error"

(***************************************************************************)
(* C6: when a pull yields zero bytes inside a container, the next() call   *)
(* returns a decoding error, no frame is marked exhausted by it, and the   *)
(* disambiguator is not run.                                               *)
(***************************************************************************)
C6_EofInsideContainerIsError ==
    (last.op = "next" /\ reader.g_pull_zero_depth > 0) =>
        /\ last.status = "decoding_error"
        /\ reader.g_eof_calls = 0
        /\ \A i \in 1..Len(reader.parents) :
               reader.parents[i].exhausted =>
                   i <= Len(last.pre.parents) /\ last.pre.parents[i].exhausted

\* The input ended inside a struct, after a field name.
C6_Witness ==
    /\ last.op = "next"
    /\ depth(last.pre) > 0
    /\ reader.g_pull_zero_depth > 0
    /\ reader.parents[Len(reader.parents)].ion_type = "struct"
    /\ reader.current_field_name # last.pre.current_field_name

(***************************************************************************)
(* C7: when a well-formed input ends in a value that the parser could only *)
(* report as Incomplete, the next() call that finds the end of the input   *)
(* returns that value (the last one of the input, not the sentinel), and   *)
(* the next() after it returns "no more values".                           *)
(***************************************************************************)
C7_ValueAtEofIsReturned ==
    WellFormed =>
        \A i \in 1..Len(out) :
            out[i].eof = "value" =>
                /\ out[i].status = "ok"
                /\ i = Len(doc)
                /\ SameValue(out[i].value, doc[Len(doc)])
                /\ out[i].value.at <= Len(input)
                /\ i < Len(out) => (out[i + 1].status = "ok" /\ out[i + 1].value = NoValue)

\* The last value was resolved at the end of the input, and the call after
\* it found no more values.
C7_Witness ==
    /\ WellFormed
    /\ Len(out) >= 2
    /\ out[Len(out) - 1].eof = "value"
    /\ out[Len(out) - 1].value.type \in {"int", "symbol"}
    /\ out[Len(out)].value = NoValue

(***************************************************************************)
(* C8: once a well-formed input has been read to its end (a next() at top  *)
(* level returned "no more values"), bytes_read() is the length of the     *)
(* input.                                                                  *)
(***************************************************************************)
C8_BytesReadIsInputLength ==
    (WellFormed /\ last.op = "next" /\ depth(reader) = 0
        /\ last.status = "ok" /\ last.value = NoValue) =>
        bytes_read(reader) = Len(input)

(***************************************************************************)
(* C9: there is a current field name only while the current value is a     *)
(* field of the struct that is the immediate parent.                       *)
(***************************************************************************)
C9_FieldNameOnlyInStruct ==
    field_name(reader) # NoValue =>
        /\ reader.parents # <<>>
        /\ reader.parents[Len(reader.parents)].ion_type = "struct"
        /\ reader.current_value # NoValue

(***************************************************************************)
(* C10: a next() call that returns a decoding error leaves the parent      *)
(* stack as it was before the call.                                        *)
(***************************************************************************)
C10_ErrorKeepsParents ==
    (last.op = "next" /\ last.status = "decoding_error") =>
        reader.parents = last.pre.parents

(***************************************************************************)
(* C11: step_in() with no current value or with a scalar one, and          *)
(* step_out() at depth 0, return an illegal-operation error and leave the  *)
(* whole reader as it was (parent stack, current value, field name, EOF    *)
(* flag, buffer tail, bytes_read), so the call that follows finds the      *)
(* reader the illegal call found.                                          *)
(***************************************************************************)
C11_IllegalOperationKeepsState ==
    /\ (last.op = "step_in" /\ ~is_container(last.pre.current_value)) =>
           last.status = "illegal_operation" /\ reader = last.pre
    /\ (last.op = "step_out" /\ depth(last.pre) = 0) =>
           last.status = "illegal_operation" /\ reader = last.pre
    /\ last.status = "illegal_operation" => reader = last.pre

\* step_in() was refused on a scalar field of a struct, with text waiting in
\* the buffer.
C11_Witness ==
    /\ last.op = "step_in"
    /\ last.status = "illegal_operation"
    /\ last.pre.current_value.type = "int"
    /\ last.pre.current_field_name # NoValue
    /\ depth(last.pre) = 1
    /\ last.pre.buffer # <<>>
    /\ reader = last.pre

(***************************************************************************)
(* C12: step_in() on a container head succeeds; it pushes exactly one      *)
(* frame, of the kind of that container and not exhausted, clears the      *)
(* current value, raises the depth by 1 and consumes no bytes; every frame *)
(* of the stack is a list, an s-expression or a struct.                    *)
(***************************************************************************)
C12_StepInPushesOneFrame ==
    /\ (last.op = "step_in" /\ is_container(last.pre.current_value)) =>
           last.status = "ok"
    /\ (last.op = "step_in" /\ last.status = "ok") =>
           /\ is_container(last.pre.current_value)
           /\ depth(reader) = depth(last.pre) + 1
           /\ SubSeq(reader.parents, 1, depth(last.pre)) = last.pre.parents
           /\ reader.parents[depth(reader)].ion_type = last.pre.current_value.type
           /\ ~reader.parents[depth(reader)].exhausted
           /\ reader.current_value = NoValue
           /\ reader.buffer = last.pre.buffer
           /\ bytes_read(reader) = bytes_read(last.pre)
    /\ \A i \in 1..depth(reader) : reader.parents[i].ion_type \in ContainerTypes

\* step_in() entered a struct.
C12_Witness ==
    /\ last.op = "step_in"
    /\ last.status = "ok"
    /\ last.pre.current_value.type = "struct"
    /\ reader.parents[depth(reader)].ion_type = "struct"

(***************************************************************************)
(* C13: a successful step_out() at depth d > 0 pops the innermost frame    *)
(* and nothing else (the depth is d - 1) and leaves no current value; from *)
(* an exhausted frame it does so without a parser call and without         *)
(* consuming bytes; from an open frame it first reads the container to its *)
(* end, so the parser has run.                                             *)
(***************************************************************************)
C13_StepOutPopsInnermost ==
    (last.op = "step_out" /\ last.status = "ok") =>
        /\ depth(last.pre) > 0
        /\ reader.parents = SubSeq(last.pre.parents, 1, depth(last.pre) - 1)
        /\ reader.current_value = NoValue
        /\ IF last.pre.parents[depth(last.pre)].exhausted
           THEN /\ reader.g_parser_calls = 0
                /\ reader.buffer = last.pre.buffer
                /\ bytes_read(reader) = bytes_read(last.pre)
           ELSE /\ reader.g_parser_calls > 0
                /\ bytes_read(reader) > bytes_read(last.pre)

\* step_out() left an exhausted frame that had a frame below it.
C13_Witness ==
    /\ last.op = "step_out"
    /\ last.status = "ok"
    /\ depth(last.pre) = 2
    /\ last.pre.parents[2].exhausted
    /\ depth(reader) = 1

(***************************************************************************)
(* C14: next() on an exhausted innermost frame returns "no more values",   *)
(* without an error, without a parser call and without a change of the     *)
(* buffer tail, of bytes_read or of the parent stack, however often it is  *)
(* repeated.                                                               *)
(***************************************************************************)
C14_ExhaustedFrameNextIsNoOp ==
    (/\ last.op = "next"
     /\ depth(last.pre) > 0
     /\ last.pre.parents[depth(last.pre)].exhausted) =>
        /\ last.status = "ok"
        /\ last.value = NoValue
        /\ reader.g_parser_calls = 0
        /\ reader.buffer = last.pre.buffer
        /\ bytes_read(reader) = bytes_read(last.pre)
        /\ reader.parents = last.pre.parents

\* next() found the frame exhausted and left the reader as it was (so the
\* next next() finds the same), with a value waiting after the container.
C14_Witness ==
    /\ last.op = "next"
    /\ depth(last.pre) > 0
    /\ last.pre.parents[depth(last.pre)].exhausted
    /\ last.value = NoValue
    /\ reader = last.pre
    /\ \E k \in 1..Len(reader.buffer) : reader.buffer[k] \in Digits \cup Letters

(***************************************************************************)
(* C15: no call clears the EOF flag, and next() at depth 0 with the EOF    *)
(* flag set returns "no more values" and leaves the buffer tail and        *)
(* bytes_read as they were.                                                *)
(***************************************************************************)
C15_EofFlagIsPermanent ==
    /\ last.pre.is_eof => reader.is_eof
    /\ (last.op = "next" /\ depth(last.pre) = 0 /\ last.pre.is_eof) =>
           /\ last.status = "ok"
           /\ last.value = NoValue
           /\ reader.buffer = last.pre.buffer
           /\ bytes_read(reader) = bytes_read(last.pre)

\* next() at depth 0 with the flag set, a value that was resolved at the
\* end of the input still in the buffer.
C15_Witness ==
    /\ last.op = "next"
    /\ depth(last.pre) = 0
    /\ last.pre.is_eof
    /\ last.pre.current_value # NoValue
    /\ reader.is_eof
    /\ reader.buffer # <<>>

(***************************************************************************)
(* C16: a typed scalar reader never returns an error and never changes the *)
(* reader; it returns the payload of the current value when the value is   *)
(* of the reader's type, and "absent" otherwise: with no current value     *)
(* (before any next() too), on a container, on a scalar of another type.   *)
(***************************************************************************)
TypeRead(op) ==
    CASE op = "read_i64" -> "int"
      [] op = "read_string" -> "string"
      [] OTHER -> "no value of the model"

C16_TypedReadersOnlyRead ==
    last.op \in ReadOps =>
        /\ last.status = "ok"
        /\ reader = last.pre
        /\ IF last.pre.current_value.type = TypeRead(last.op)
           THEN /\ last.value.type = last.pre.current_value.type
                /\ last.value.text = last.pre.current_value.text
           ELSE last.value = NoValue

\* read_i64() returned the payload of an integer that a next() had found,
\* and the reader still holds the integer.
C16_Witness ==
    /\ last.op = "read_i64"
    /\ last.value.text = <<"7", "7">>
    /\ reader.current_value.type = "int"
    /\ reader.bytes_read > 0

(***************************************************************************)
(* C17: inside a struct frame next() reads a field name or the closing     *)
(* delimiter.  Once it has found a field name it returns the value that    *)
(* follows, or a decoding error (the input ends, or is no value): never    *)
(* "no more values", and the frame is not marked exhausted.  In a          *)
(* well-formed input the call returns the value of the first field that    *)
(* starts after the reader's position (after the container that was the    *)
(* current value, if one was), with that field's name as the field name,   *)
(* and "no more values" with the frame exhausted when the closing          *)
(* delimiter comes first: the k fields in order, then "no more values".    *)
(***************************************************************************)
InStruct(r) ==
    /\ depth(r) > 0
    /\ r.parents[depth(r)].ion_type = "struct"
    /\ ~r.parents[depth(r)].exhausted

\* The offset next() starts to read at.
ReadFrom(r) ==
    IF is_container(r.current_value)
    THEN ClosingDelimiter(r.current_value.at)
    ELSE r.bytes_read

\* The number of fields of the struct that starts at offset h that start at
\* or before offset n.
FieldsUpTo(h, n) ==
    Cardinality({k \in h..n : /\ input[k] = ":"
                              /\ Count(Openers, h, k) = Count(Closers, h, k) + 1})
        + 1

C17_StructFieldThenValue ==
    (last.op = "next" /\ InStruct(last.pre)) =>
        /\ reader.current_field_name # last.pre.current_field_name =>
               /\ last.status \in {"ok", "decoding_error"}
               /\ last.status = "ok" => last.value # NoValue
               /\ depth(reader) = depth(last.pre)
               /\ ~reader.parents[depth(reader)].exhausted
        /\ WellFormed =>
               LET n == RunEnd(input, ReadFrom(last.pre) + 1, Whitespace)
                   e == RunEnd(input, n, Letters \cup Digits)
                   h == last.pre.parents[depth(last.pre)].head
               IN  /\ last.status = "ok"
                   /\ IF input[n] = "}"
                      THEN /\ last.value = NoValue
                           /\ reader.parents[depth(reader)].exhausted
                           /\ reader.current_field_name = last.pre.current_field_name
                      ELSE /\ reader.current_field_name.at = n
                           /\ reader.current_field_name.text = SubSeq(input, n, e - 1)
                           /\ input[RunEnd(input, e, Whitespace)] = ":"
                           /\ last.value.at =
                                  RunEnd(input, RunEnd(input, e, Whitespace) + 1, Whitespace)
                           /\ \E i \in 1..Len(doc) :
                                  /\ doc[i].type = "struct"
                                  /\ FieldsUpTo(h, n) <= Len(doc[i].children)
                                  /\ SameValue(last.value, doc[i].children[FieldsUpTo(h, n)])
                                  /\ reader.current_field_name.text =
                                         doc[i].children[FieldsUpTo(h, n)].field

\* The second field of a struct was returned, after its first.
C17_Witness ==
    /\ WellFormed
    /\ last.op = "next"
    /\ InStruct(last.pre)
    /\ last.pre.current_value.type = "int"
    /\ last.pre.current_field_name.text = <<"a">>
    /\ reader.current_field_name.text = <<"b">>
    /\ last.value.type = "list"

(***************************************************************************)
(* C18: no call lowers bytes_read; bytes_read is the number of characters  *)
(* that have been discarded from the front of the buffer (the buffer tail  *)
(* is the input from offset bytes_read + 1 to the last character pulled),  *)
(* and it is at most the number of input characters pulled.                *)
(***************************************************************************)
C18_BytesReadCountsDiscarded ==
    /\ bytes_read(last.pre) <= bytes_read(reader)
    /\ bytes_read(reader) = reader.loaded - Len(reader.buffer)
    /\ reader.buffer = SubSeq(input, bytes_read(reader) + 1, reader.loaded)
    /\ bytes_read(reader) <= reader.loaded
    /\ reader.loaded <= Len(input)

\* A next() consumed a value of the second line pulled and left text of
\* that line in the buffer.
C18_Witness ==
    /\ last.op = "next"
    /\ last.status = "ok"
    /\ 0 < bytes_read(last.pre)
    /\ bytes_read(last.pre) < bytes_read(reader)
    /\ last.pre.loaded < reader.loaded
    /\ reader.buffer # <<>>
    /\ \E k \in 1..Len(reader.buffer) : reader.buffer[k] \in Digits \cup Letters

(***************************************************************************)
(* C19: parse_next discards text only when the parser matched, and then    *)
(* as many characters as the tail it parsed is longer than the leftover    *)
(* the parser reported; when the last attempt is Incomplete (after any     *)
(* number of reloads, at the end of the input) or a syntax error, the      *)
(* buffer keeps all its text, grown by what was pulled, and bytes_read is  *)
(* unchanged.  This is stated of parse_next with each of the parsers in    *)
(* every state the reader reaches, and of the next() calls that are one    *)
(* parse_next: those in an open list or s-expression, with no container to *)
(* skip.                                                                   *)
(***************************************************************************)
ParserNames ==
    {"top_level_value", "list_value_or_end", "s_expression_value_or_end",
     "struct_field_name_or_end", "struct_field_value"}

\* The buffer tail of reader `before`, with the text pulled up to `after`.
TailWithPulled(before, after) ==
    before.buffer \o SubSeq(input, before.loaded + 1, after.loaded)

\* `res` is what parse_next with parser `name` returned to reader `before`.
ExactlyConsumed(before, res, name) ==
    LET tail == TailWithPulled(before, res.r)
        p == Parser(name, tail)
    IN  IF res.status = "some"
        THEN /\ p.kind = "ok"
             /\ res.r.buffer = SubSeq(tail, Len(tail) - p.rest + 1, Len(tail))
             /\ bytes_read(res.r) = bytes_read(before) + (Len(tail) - p.rest)
        ELSE /\ res.r.buffer = tail
             /\ bytes_read(res.r) = bytes_read(before)
             /\ ~before.is_eof => p.kind \in {"incomplete", "error"}

InSequence(r) ==
    /\ depth(r) > 0
    /\ r.parents[depth(r)].ion_type \in {"list", "sexp"}
    /\ ~r.parents[depth(r)].exhausted
    /\ ~is_container(r.current_value)

SequenceParser(r) ==
    IF r.parents[depth(r)].ion_type = "list"
    THEN "list_value_or_end"
    ELSE "s_expression_value_or_end"

C19_ConsumesOnlyWhatMatched ==
    /\ \A name \in ParserNames :
           ExactlyConsumed(reader, parse_next(BeginCall(reader), name), name)
    /\ (last.op = "next" /\ InSequence(last.pre)) =>
           ExactlyConsumed(last.pre,
                           [r |-> reader,
                            status |-> IF last.status = "ok" THEN "some" ELSE "err"],
                           SequenceParser(last.pre))

\* next() in a list pulled a further line and then met a syntax error: the
\* buffer holds the old tail and the new line, and bytes_read is unchanged.
C19_Witness ==
    /\ last.op = "next"
    /\ InSequence(last.pre)
    /\ last.status = "decoding_error"
    /\ reader.g_error_depth > 0
    /\ reader.g_parser_calls >= 2
    /\ last.pre.buffer # <<>>
    /\ Len(reader.buffer) > Len(last.pre.buffer)
    /\ bytes_read(reader) = bytes_read(last.pre)

(***************************************************************************)
(* C20: every call of next() and of step_out() returns.  A pass of the     *)
(* retry loop that goes round again has pulled at least one character; a   *)
(* pass that found nothing to pull has set the EOF flag and left the loop; *)
(* the scan loop of step_out goes round again only after a next() that     *)
(* returned a value, and that next() has consumed text; and the call that  *)
(* has returned has returned what the call taken as a whole returns: a     *)
(* value, "no more values" or an error.                                    *)
(***************************************************************************)
Running == stack # <<>>

Returned == stack = <<>>

LoopsProgress ==
    /\ (At("parse_loop") /\ stack' = stack) => reader'.loaded > reader.loaded
    /\ (At("parse_loop") /\ NextLineLength(reader) = 0 /\ stack' # stack
            /\ last'.status = "none") => reader'.is_eof
    /\ (At("visit_again") /\ Len(stack') > Len(stack)) =>
           /\ last.status = "ok"
           /\ last.value # NoValue

StepsAgree ==
    (Returned /\ last.op \in {"next", "step_out"}) =>
        LET whole == IF last.op = "next" THEN next(last.pre) ELSE step_out(last.pre)
        IN  /\ reader = whole.r
            /\ last.status = whole.status
            /\ last.value = whole.value
            /\ last.status \in {"ok", "decoding_error", "illegal_operation"}

C20_CallsReturn ==
    /\ [][LoopsProgress]_vars
    /\ []StepsAgree
    /\ Running ~> Returned

\* A step_out() has returned after its scan loop went round several times,
\* with retry loops that pulled further lines inside it.
C20_Witness ==
    /\ Returned
    /\ last.op = "step_out"
    /\ last.status = "ok"
    /\ depth(last.pre) = 1
    /\ reader.g_parser_calls >= 6
    /\ reader.loaded > last.pre.loaded

(***************************************************************************)
(* C21: a frame only moves forward, Open -> Exhausted -> popped.  In every *)
(* step of a call: a frame that is pushed is pushed open, one at a time;   *)
(* a frame that stays on the stack stays the same frame, and its exhausted *)
(* flag changes only from false to true, only for the innermost frame, and *)
(* only in the step of load_next_value that matches on what the container  *)
(* parser returned, the closing delimiter of the frame's container being   *)
(* the last character consumed; and a frame that leaves the stack is the   *)
(* innermost one and is exhausted.                                         *)
(***************************************************************************)
SameFrame(f, g) == f.ion_type = g.ion_type /\ f.head = g.head

FrameMovesForward ==
    /\ Len(reader'.parents) <= Len(reader.parents) + 1
    /\ Len(reader'.parents) >= Len(reader.parents) - 1
    /\ Len(reader'.parents) > Len(reader.parents) =>
           ~reader'.parents[Len(reader'.parents)].exhausted
    /\ Len(reader'.parents) < Len(reader.parents) =>
           reader.parents[Len(reader.parents)].exhausted
    /\ \A i \in 1..Len(reader.parents) :
           i <= Len(reader'.parents) =>
               /\ SameFrame(reader.parents[i], reader'.parents[i])
               /\ reader.parents[i].exhausted => reader'.parents[i].exhausted
               /\ (~reader.parents[i].exhausted /\ reader'.parents[i].exhausted) =>
                      /\ i = Len(reader.parents)
                      /\ At("container_loaded")
                      /\ last.status = "ok"
                      /\ last.value = NoValue
                      /\ reader.bytes_read > 0
                      /\ input[reader.bytes_read] = Close(reader.parents[i].ion_type)

C21_FrameMovesForward == [][FrameMovesForward]_vars

\* step_out() is about to pop a frame that its own scan loop has seen
\* exhausted.
C21_Witness ==
    /\ At("pop_parent")
    /\ last.op = "step_out"
    /\ last.status = "ok"
    /\ reader.g_parser_calls > 0
    /\ ~last.pre.parents[Len(last.pre.parents)].exhausted
    /\ Len(reader.parents) = Len(last.pre.parents)
    /\ reader.parents[Len(reader.parents)].exhausted

(***************************************************************************)
(* C22: the disambiguator is idempotent with respect to the buffer.  After *)
(* a next() in which it ran, whatever its outcome, the buffer tail is the  *)
(* real tail (the input from bytes_read + 1 to the last character pulled), *)
(* with no sentinel left at its end; run again on that reader it has the   *)
(* same outcome and the same value as in the call, and leaves the same     *)
(* tail again.                                                             *)
(***************************************************************************)
RealTail(r) == SubSeq(input, r.bytes_read + 1, r.loaded)

SameAgain(again) ==
    /\ again.r.buffer = reader.buffer
    /\ again.r.g_eof_outcome = reader.g_eof_outcome
    /\ again.status = (CASE reader.g_eof_outcome = "sentinel" -> "none"
                         [] reader.g_eof_outcome = "value" -> "some"
                         [] OTHER -> "err")
    /\ again.value = IF reader.g_eof_outcome = "value" THEN last.value ELSE NoValue

C22_DisambiguatorIsIdempotent ==
    (last.op = "next" /\ reader.g_eof_calls > 0) =>
        /\ reader.buffer = RealTail(reader)
        /\ SameAgain(parse_value_at_eof(reader))

\* The disambiguator found a value at the end of the input, and the tail
\* still holds the text of that value and nothing else.
C22_Witness ==
    /\ last.op = "next"
    /\ reader.g_eof_calls > 0
    /\ reader.g_eof_outcome = "value"
    /\ last.value.text = <<"7", "7">>
    /\ reader.buffer = <<"7", "7">>

(***************************************************************************)
(* C23: when the disambiguator's parse of the tail with the sentinel       *)
(* yields a value that is not the sentinel zero, the next() call returns   *)
(* that value, and the sentinel is still at the end of the buffer tail     *)
(* when the call has returned.                                             *)
(***************************************************************************)
C23_SentinelStaysAfterValue ==
    (last.op = "next" /\ reader.g_eof_outcome = "value") =>
        /\ last.status = "ok"
        /\ last.value # NoValue
        /\ last.value = reader.current_value
        /\ ends_with(reader.buffer, SENTINEL_ION_TEXT)

(***************************************************************************)
(* C24: when the disambiguator's parse yields the unannotated integer zero *)
(* with only the final line break left over, the next() call returns "no   *)
(* more values" with the EOF flag set and no current value; and this       *)
(* happens only when the real tail held no value (it is empty or white     *)
(* space), never when it held one, a literal 0 included.                   *)
(***************************************************************************)
C24_SentinelZeroMeansNoValue ==
    (last.op = "next" /\ reader.g_eof_outcome = "sentinel") =>
        /\ last.status = "ok"
        /\ last.value = NoValue
        /\ reader.is_eof
        /\ reader.current_value = NoValue
        /\ \A k \in 1..Len(reader.buffer) : reader.buffer[k] \in Whitespace
        /\ reader.buffer = RealTail(reader)

\* The input ended after the line break that follows a literal 0: the 0 was
\* returned by an earlier next(), and the zero found now is the sentinel.
C24_Witness ==
    /\ last.op = "next"
    /\ reader.g_eof_outcome = "sentinel"
    /\ last.pre.current_value.text = <<"0">>
    /\ reader.buffer = <<"\n">>
    /\ last.value = NoValue

(***************************************************************************)
(* C25: in every reachable state only the innermost frame of the parent    *)
(* stack can be exhausted: every frame below the top of the stack has      *)
(* exhausted = false.                                                      *)
(***************************************************************************)
C25_OnlyInnermostExhausted ==
    \A i \in 1..(depth(reader) - 1) : ~reader.parents[i].exhausted

\* Two containers deep, the inner one has been read to its end.
C25_Witness ==
    /\ depth(reader) >= 2
    /\ reader.parents[depth(reader)].exhausted
    /\ last.op = "next"
    /\ last.status = "ok"
    /\ ~last.pre.parents[depth(reader)].exhausted

(***************************************************************************)
(* C26: in every reachable state, if the innermost frame is exhausted then *)
(* the current value is absent, so every typed reader returns absent, and  *)
(* a step_in() called in such a state is rejected as an illegal operation  *)
(* and changes nothing.                                                    *)
(***************************************************************************)
InnermostExhausted(r) == depth(r) > 0 /\ r.parents[depth(r)].exhausted

C26_ExhaustedFrameHasNoValue ==
    /\ InnermostExhausted(reader) =>
           /\ reader.current_value = NoValue
           /\ \A op \in ReadOps : Read(op, reader) = Ok(reader, NoValue)
           /\ step_in(BeginCall(reader)).status = "illegal_operation"
    /\ (last.op = "step_in" /\ InnermostExhausted(last.pre)) =>
           /\ last.status = "illegal_operation"
           /\ reader.parents = last.pre.parents
           /\ reader.current_value = NoValue

\* A step_in() called after the end of a nested container was reached.
C26_Witness ==
    /\ last.op = "step_in"
    /\ depth(last.pre) >= 2
    /\ InnermostExhausted(last.pre)
    /\ last.status = "illegal_operation"
    /\ reader.current_value = NoValue

(***************************************************************************)
(* C27: once the input has been exhausted inside a container (the EOF flag *)
(* is set at depth > 0), the reader is stuck in that container: every      *)
(* later next() and step_out() returns a decoding error, step_in() returns *)
(* an illegal-operation error, and the depth never changes again.          *)
(***************************************************************************)
StuckInContainer(r) == r.is_eof /\ depth(r) > 0

C27_StuckAfterEofInContainer ==
    (last.op # "new" /\ StuckInContainer(last.pre)) =>
        /\ StuckInContainer(reader)
        /\ reader.parents = last.pre.parents
        /\ last.op \in {"next", "step_out"} => last.status = "decoding_error"
        /\ last.op = "step_in" => last.status = "illegal_operation"

\* The input ended inside a container during an earlier call, and a
\* step_out() made afterwards fails without leaving the container.
C27_Witness ==
    /\ StuckInContainer(last.pre)
    /\ last.op = "step_out"
    /\ last.status = "decoding_error"
    /\ depth(reader) = depth(last.pre)
    /\ reader.g_parser_calls = 0

(***************************************************************************)
(* C28: over the whole life of a reader parse_value_at_eof is invoked at   *)
(* most once: it runs only in a next() called at the top level whose pull  *)
(* returned zero bytes, and that pull sets the EOF flag, which makes every *)
(* later top-level next() return before parsing.                           *)
(***************************************************************************)
EofRuns == {i \in 1..Len(out) : out[i].eof # "not run"}

C28_DisambiguatorRunsOnce ==
    /\ Cardinality(EofRuns) <= 1
    /\ reader.g_eof_calls <= 1
    /\ reader.g_eof_calls > 0 =>
           /\ last.op = "next"
           /\ depth(last.pre) = 0
           /\ ~last.pre.is_eof
           /\ reader.g_pull_zero_depth = 0
           /\ reader.is_eof
           /\ Len(out) \in EofRuns
    /\ (last.op = "next" /\ depth(last.pre) = 0 /\ last.pre.is_eof) =>
           /\ reader.g_parser_calls = 0
           /\ reader.g_eof_calls = 0

\* The disambiguator ran in one top-level next(), and top-level next() was
\* called twice more afterwards without running it.
C28_Witness ==
    /\ Len(out) >= 3
    /\ out[Len(out) - 2].eof # "not run"
    /\ out[Len(out) - 1].eof = "not run"
    /\ out[Len(out)].eof = "not run"
    /\ last.op = "next"
    /\ depth(last.pre) = 0

=============================================================================
